---- MODULE Spec2Model ----
(***************************************************************************)
(* SimpleYoutubeSkill.search_youtube (src/__init__.py): the phrase cache,  *)
(* the category filter, parse_duration, calc_score and the materialised    *)
(* match list.                                                             *)
(*                                                                         *)
(* Text is a sequence of one-character strings where the code looks at     *)
(* characters (the "length" of a video), and a sequence of lower-case      *)
(* words where the code only hands it to the word-level helpers voc_match, *)
(* remove_voc and fuzzy_match.  Scores are whole percentage points.        *)
(***************************************************************************)
EXTENDS Integers, Sequences, FiniteSets, TLC

VARIABLES
    cache,           \* self._search_cache: stripped phrase -> provider results
    settings,        \* self.settings: fallback_mode, audio_only, video_only
    provider_calls,  \* per stripped phrase, how often youtube_searcher was invoked
    ret,             \* the latest search_youtube call: its inputs and its outcome
    dur              \* one parse_duration application: its input and its outcome

vars == <<cache, settings, provider_calls, ret, dur>>

-----------------------------------------------------------------------------
(* Bounds of the model *)

MaxResults == 2          \* longest provider result list
MaxProviderCalls == 2    \* provider invocations followed per phrase
MaxDurLen == 4           \* longest "length" string enumerated for parse_duration

-----------------------------------------------------------------------------
(* Enumerations of ovos_workshop.frameworks.playback *)

MediaTypes == {"GENERIC", "MUSIC", "PODCAST", "DOCUMENTARY", "VIDEO", "AUDIO"}

-----------------------------------------------------------------------------
(* Word-level helpers of the skill framework *)

\* The .voc vocabularies the skill consults, one trigger word each.
Voc(name) ==
    CASE name = "youtube"     -> {"youtube"}
      [] name = "music"       -> {"music"}
      [] name = "podcast"     -> {"podcast"}
      [] name = "documentary" -> {"documentary"}

\* self.voc_match(utt, name): some word of the utterance is in the vocabulary.
voc_match(utt, name) == \E i \in 1..Len(utt) : utt[i] \in Voc(name)

\* self.remove_voc(utt, name): the utterance without the vocabulary's words.
IsOutsideVoc(word, name) == word \notin Voc(name)

remove_voc(utt, name) ==
    LET keep(w) == IsOutsideVoc(w, name) IN SelectSeq(utt, keep)

Words(utt) == {utt[i] : i \in 1..Len(utt)}

\* 100 * fuzzy_match(a, b, strategy=TOKEN_SET_RATIO), in whole points: 100 when
\* the words of one text are all among the words of the other, 0 when either
\* text is empty, and the share of common words otherwise.
fuzzy_match(a, b) ==
    LET A == Words(a)
        B == Words(b)
        common == A \cap B
    IN  IF A = {} \/ B = {} THEN 0
        ELSE IF common = A \/ common = B THEN 100
        ELSE (200 * Cardinality(common)) \div (Cardinality(A) + Cardinality(B))

-----------------------------------------------------------------------------
(* parse_duration *)

DigitChars == {"0", "1", "2", "3", "4", "5", "6", "7", "8", "9"}

DigitValue(c) ==
    CASE c = "0" -> 0 [] c = "1" -> 1 [] c = "2" -> 2 [] c = "3" -> 3
      [] c = "4" -> 4 [] c = "5" -> 5 [] c = "6" -> 6 [] c = "7" -> 7
      [] c = "8" -> 8 [] c = "9" -> 9

\* str.isdigit(): non-empty and made of digits only.
isdigit(s) == Len(s) > 0 /\ \A i \in 1..Len(s) : s[i] \in DigitChars

\* int(s) for a string of digits.
RECURSIVE int(_)
int(s) ==
    IF s = <<>> THEN 0
    ELSE 10 * int(SubSeq(s, 1, Len(s) - 1)) + DigitValue(s[Len(s)])

\* int(s) raises ValueError on the empty string and on any non-digit character
\* of the strings modelled here.
int_raises(s) == ~isdigit(s)

\* s.split(":")
RECURSIVE split(_)
split(s) ==
    IF \A i \in 1..Len(s) : s[i] # ":" THEN <<s>>
    ELSE LET i == CHOOSE k \in 1..Len(s) :
                      s[k] = ":" /\ \A j \in 1..(k - 1) : s[j] # ":"
         IN  <<SubSeq(s, 1, i - 1)>> \o split(SubSeq(s, i + 1, Len(s)))

\* parse_duration(video): exc is the exception it raises ("none" when it
\* returns), ms the value it returns.
parse_duration(video) ==
    IF ~video.has_length \/ video.length = <<>>
    THEN [exc |-> "none", ms |-> 0]
    ELSE LET nums == split(video.length) IN
         IF Len(nums) = 1 /\ isdigit(nums[1])
         THEN [exc |-> "none", ms |-> int(nums[1]) * 1000]
         ELSE IF Len(nums) = 2
         THEN IF int_raises(nums[1])
              THEN [exc |-> "ValueError", ms |-> 0]
              ELSE [exc |-> "none",
                    ms  |-> (int(nums[1]) * 60 + int(nums[1])) * 1000]
         ELSE IF Len(nums) = 3
         THEN IF int_raises(nums[1])
              THEN [exc |-> "ValueError", ms |-> 0]
              ELSE [exc |-> "none",
                    ms  |-> (int(nums[1]) * 60 * 60 + int(nums[1]) * 60
                             + int(nums[1])) * 1000]
         ELSE [exc |-> "none", ms |-> 0]

-----------------------------------------------------------------------------
(* Category classifiers *)

is_music(match) == voc_match(match.title, "music")

\* is_podcast(match) where parse_duration(match) returns: at least 30 minutes
\* long and a podcast word in the title.
is_podcast(match) ==
    LET d == parse_duration(match).ms \div 1000 IN
    IF d < 30 * 60 THEN FALSE ELSE voc_match(match.title, "podcast")

\* is_documentary(match) where parse_duration(match) returns: at least 20
\* minutes long and a documentary word in the title.
is_documentary(match) ==
    LET d == parse_duration(match).ms \div 1000 IN
    IF d < 20 * 60 THEN FALSE ELSE voc_match(match.title, "documentary")

\* Whether evaluating parse_duration on some element of the list raises.
some_duration_raises(results) ==
    \E i \in 1..Len(results) : parse_duration(results[i]).exc # "none"

\* The three list comprehensions that filter the results by requested
\* media_type.  The podcast and documentary filters parse every duration, so
\* one unparseable duration raises out of the comprehension.
filter_results(results, media_type) ==
    IF media_type = "MUSIC"
    THEN [exc |-> "none", results |-> SelectSeq(results, is_music)]
    ELSE IF media_type \in {"PODCAST", "DOCUMENTARY"} /\ some_duration_raises(results)
    THEN [exc |-> "ValueError", results |-> <<>>]
    ELSE IF media_type = "PODCAST"
    THEN [exc |-> "none", results |-> SelectSeq(results, is_podcast)]
    ELSE IF media_type = "DOCUMENTARY"
    THEN [exc |-> "none", results |-> SelectSeq(results, is_documentary)]
    ELSE [exc |-> "none", results |-> results]

-----------------------------------------------------------------------------
(* Request normalisation *)

\* base_score and explicit_request as computed at the top of search_youtube.
base_score_of(media_type, explicit_request) ==
    (IF media_type = "MUSIC" THEN 15 ELSE IF media_type = "VIDEO" THEN 25 ELSE 0)
    + (IF explicit_request THEN 50 ELSE 0)

\* The phrase the cache and the provider see.
stripped_phrase(phrase) ==
    IF voc_match(phrase, "youtube") THEN remove_voc(phrase, "youtube") ELSE phrase

\* What calc_score reads from the enclosing call: base_score, the stripped
\* phrase, media_type, explicit_request and settings["fallback_mode"].
request(phrase, media_type, fallback_mode) ==
    [base_score       |-> base_score_of(media_type, voc_match(phrase, "youtube")),
     phrase           |-> stripped_phrase(phrase),
     media_type       |-> media_type,
     explicit_request |-> voc_match(phrase, "youtube"),
     fallback_mode    |-> fallback_mode]

\* The local list `playback`.  search_youtube assigns it and never reads it.
playback_forms(media_type, gui_connected) ==
    IF media_type = "AUDIO" \/ ~gui_connected THEN {"AUDIO"}
    ELSE IF media_type # "VIDEO" THEN {"VIDEO", "AUDIO"}
    ELSE {"VIDEO"}

-----------------------------------------------------------------------------
(* calc_score.  req is the request(...) of the enclosing call.               *)

\* The score after the rank decay, the fuzzy match and the GENERIC penalty.
running_score(match, idx, req) ==
    req.base_score - idx * 5
    + fuzzy_match(req.phrase, match.title)
    - (IF req.media_type = "GENERIC" THEN 10 ELSE 0)

\* What the `if score >= 100` block subtracts.
secondary_penalty(score, media_type, match) ==
    IF score >= 100
    THEN IF media_type = "AUDIO" THEN 20
         ELSE IF media_type # "VIDEO" THEN 10
         ELSE IF media_type = "MUSIC" /\ ~is_music(match) THEN 5
         ELSE 0
    ELSE 0

\* What the fallback_mode block subtracts.
fallback_penalty(req) ==
    IF req.fallback_mode /\ ~req.explicit_request THEN 25 ELSE 0

\* The score before `min(100, score)`.
unclamped_score(match, idx, req) ==
    LET s == running_score(match, idx, req) IN
    s - secondary_penalty(s, req.media_type, match) - fallback_penalty(req)

min(a, b) == IF a <= b THEN a ELSE b

calc_score_unclamped(match, idx, req) == unclamped_score(match, idx, req)

calc_score(match, idx, req) == min(100, unclamped_score(match, idx, req))

-----------------------------------------------------------------------------
(* The match list *)

audio_only_title(title) == title \o <<"(audio only)">>

match_entry(r, confidence, playback, title) ==
    [match_confidence |-> confidence,
     media_type       |-> "VIDEO",
     length           |-> parse_duration(r).ms,
     uri              |-> r.url,
     playback         |-> playback,
     title            |-> title]

\* The comprehension of the audio_only branch.
audio_only_matches(results, req) ==
    [k \in 1..Len(results) |->
        match_entry(results[k], calc_score(results[k], k - 1, req),
                    "AUDIO", audio_only_title(results[k].title))]

\* The first comprehension of the else branch.
video_matches(results, req) ==
    [k \in 1..Len(results) |->
        match_entry(results[k], calc_score(results[k], k - 1, req),
                    "VIDEO", results[k].title)]

audio_duplicates_same_score(results, req) ==
    [k \in 1..Len(results) |->
        match_entry(results[k], calc_score(results[k], k - 1, req),
                    "AUDIO", audio_only_title(results[k].title))]

\* The comprehension under `if not self.settings["video_only"]`.
audio_duplicates(results, req) ==
    [k \in 1..Len(results) |->
        match_entry(results[k], calc_score(results[k], k - 1, req) - 1,
                    "AUDIO", audio_only_title(results[k].title))]

build_matches_always_duplicating(results, req, conf) ==
    IF conf.audio_only
    THEN audio_only_matches(results, req) \o audio_duplicates(results, req)
    ELSE video_matches(results, req) \o audio_duplicates(results, req)

\* `matches` as assembled from the filtered results under the settings conf.
build_matches(results, req, conf) ==
    IF conf.audio_only
    THEN audio_only_matches(results, req)
    ELSE video_matches(results, req)
         \o (IF ~conf.video_only THEN audio_duplicates(results, req) ELSE <<>>)

\* What calc_score computed for each filtered result, in order.
score_trace(results, req) ==
    [k \in 1..Len(results) |->
        [idx     |-> k - 1,
         running |-> running_score(results[k], k - 1, req),
         penalty |-> secondary_penalty(running_score(results[k], k - 1, req),
                                       req.media_type, results[k])]]

-----------------------------------------------------------------------------
(* The phrase cache and the provider call *)

in_cache_nonempty(c, key) == key \in DOMAIN c /\ c[key] # <<>>

\* `phrase in self._search_cache`
in_cache(c, key) == key \in DOMAIN c

cache_put(c, key, results) ==
    [k \in DOMAIN c \cup {key} |-> IF k = key THEN results ELSE c[k]]

fetch_caching_failures(c, key, response) ==
    IF in_cache(c, key)
    THEN [invoked |-> FALSE, failed |-> FALSE, results |-> c[key], cache |-> c]
    ELSE IF ~response.ok
    THEN [invoked |-> TRUE, failed |-> TRUE, results |-> <<>>,
          cache |-> cache_put(c, key, <<>>)]
    ELSE [invoked |-> TRUE, failed |-> FALSE, results |-> response.videos,
          cache |-> cache_put(c, key, response.videos)]

\* The cache lookup, the guarded provider call and the cache store.  response
\* is what the provider does if it is invoked: ok = FALSE when it raises.
fetch(c, key, response) ==
    IF in_cache(c, key)
    THEN [invoked |-> FALSE, failed |-> FALSE, results |-> c[key], cache |-> c]
    ELSE IF ~response.ok
    THEN [invoked |-> TRUE, failed |-> TRUE, results |-> <<>>, cache |-> c]
    ELSE [invoked |-> TRUE, failed |-> FALSE, results |-> response.videos,
          cache |-> cache_put(c, key, response.videos)]

-----------------------------------------------------------------------------
(* Inputs *)

\* Videos the provider can return.
Catalog ==
    { [title |-> <<"cats">>, url |-> "u1",
       has_length |-> TRUE, length |-> <<"x", ":", "3", "0">>],
      [title |-> <<"cats", "live", "music", "podcast", "documentary">>, url |-> "u2",
       has_length |-> TRUE, length |-> <<"3", "1", ":", "0", "0">>],
      [title |-> <<"dogs">>, url |-> "u3",
       has_length |-> FALSE, length |-> <<>>] }

\* Phrases the skill is asked for.
Phrases == { <<"cats", "live">>, <<"youtube", "cats", "live">> }

\* Phrases and videos of the runs that follow the cache over two keys.
CachePhrases == Phrases \cup { <<"dogs">> }

CacheCatalog == {v \in Catalog : v.url \in {"u1", "u3"}}

Keys == {stripped_phrase(p) : p \in Phrases \cup CachePhrases}

SettingNames == {"fallback_mode", "audio_only", "video_only"}

\* What the provider may do when invoked: raise, or return up to MaxResults
\* videos in some order.
ProviderRaises == [ok |-> FALSE, videos |-> <<>>]

ProviderOutcomes(videos) ==
    {ProviderRaises}
    \cup {[ok |-> TRUE, videos |-> v] :
             v \in UNION {[1..n -> videos] : n \in 0..MaxResults}}

\* The "length" strings parse_duration is applied to on its own.
DurChars == {"0", "1", "3", "x", ":"}

DurInputs ==
    {[title |-> <<>>, url |-> "u", has_length |-> FALSE, length |-> <<>>]}
    \cup {[title |-> <<>>, url |-> "u", has_length |-> TRUE, length |-> l] :
             l \in UNION {[1..n -> DurChars] : n \in 0..MaxDurLen}}

-----------------------------------------------------------------------------
(* State machine *)

NoCall ==
    [status |-> "none", exc |-> "none", matches |-> <<>>, phrase |-> <<>>,
     key |-> <<>>, media_type |-> "GENERIC", gui_connected |-> FALSE,
     settings |-> [fallback_mode |-> FALSE, audio_only |-> FALSE,
                   video_only |-> TRUE],
     hit |-> FALSE, provider_failed |-> FALSE, results |-> <<>>,
     trace |-> <<>>]

NoDuration ==
    [phase |-> "idle",
     video |-> [title |-> <<>>, url |-> "u", has_length |-> FALSE, length |-> <<>>],
     out |-> [exc |-> "none", ms |-> 0]]

\* SimpleYoutubeSkill.__init__ with no persisted settings.
Init ==
    /\ cache = <<>>
    /\ settings = [fallback_mode |-> FALSE, audio_only |-> FALSE, video_only |-> TRUE]
    /\ provider_calls = [k \in Keys |-> 0]
    /\ ret = NoCall
    /\ dur = NoDuration

\* One call search_youtube(phrase, media_type) with the GUI connected or not
\* and the provider behaving as response.
search_youtube(phrase, media_type, gui_connected, response) ==
    LET key      == stripped_phrase(phrase)
        playback == playback_forms(media_type, gui_connected)
        req      == request(phrase, media_type, settings.fallback_mode)
        f        == fetch(cache, key, response)
        filtered == filter_results(f.results, media_type)
        raised   == ~f.failed
                    /\ (filtered.exc # "none" \/ some_duration_raises(filtered.results))
        call     == [status |-> "returned", exc |-> "none", matches |-> <<>>,
                     phrase |-> phrase, key |-> key, media_type |-> media_type,
                     gui_connected |-> gui_connected, settings |-> settings,
                     hit |-> ~f.invoked, provider_failed |-> f.failed,
                     results |-> f.results, trace |-> <<>>]
    IN  /\ f.invoked => provider_calls[key] < MaxProviderCalls
        /\ cache' = f.cache
        /\ provider_calls' =
              IF f.invoked THEN [provider_calls EXCEPT ![key] = @ + 1]
              ELSE provider_calls
        /\ ret' =
              IF f.failed THEN call
              ELSE IF raised
              THEN [call EXCEPT !.status = "raised", !.exc = "ValueError"]
              ELSE [call EXCEPT
                      !.matches = build_matches(filtered.results, req, settings),
                      !.trace = score_trace(filtered.results, req)]
        /\ UNCHANGED <<settings, dur>>

\* What the provider may do during a call for phrase: nothing that matters
\* when the call does not invoke it.
provider_behaviours(phrase, videos) ==
    IF fetch(cache, stripped_phrase(phrase), ProviderRaises).invoked
    THEN ProviderOutcomes(videos)
    ELSE {ProviderRaises}

SearchOver(phrases, media_types, guis, videos) ==
    \E phrase \in phrases :
      \E response \in provider_behaviours(phrase, videos) :
        \E media_type \in media_types, gui_connected \in guis :
            search_youtube(phrase, media_type, gui_connected, response)

Search == SearchOver(Phrases, MediaTypes, BOOLEAN, Catalog)

\* The user changes one of the persisted settings.  The value the latest call
\* returned has been handed to its caller by then.
SetSetting ==
    \E name \in SettingNames :
        /\ settings' = [settings EXCEPT ![name] = ~@]
        /\ ret' = NoCall
        /\ UNCHANGED <<cache, provider_calls, dur>>

Next == Search \/ SetSetting

Spec == Init /\ [][Next]_vars

-----------------------------------------------------------------------------
(* The cache over two keys *)

SearchCache == SearchOver(CachePhrases, {"GENERIC", "MUSIC"}, {TRUE}, CacheCatalog)

NextCache == SearchCache \/ SetSetting

SpecCache == Init /\ [][NextCache]_vars

-----------------------------------------------------------------------------
(* parse_duration on its own *)

InitDur ==
    /\ cache = <<>>
    /\ settings = [fallback_mode |-> FALSE, audio_only |-> FALSE, video_only |-> TRUE]
    /\ provider_calls = [k \in Keys |-> 0]
    /\ ret = NoCall
    /\ \E v \in DurInputs : dur = [NoDuration EXCEPT !.phase = "input", !.video = v]

ParseDuration ==
    /\ dur.phase = "input"
    /\ dur' = [dur EXCEPT !.phase = "done", !.out = parse_duration(dur.video)]
    /\ UNCHANGED <<cache, settings, provider_calls, ret>>

NextDur == ParseDuration

SpecDur == InitDur /\ [][NextDur]_vars

-----------------------------------------------------------------------------
(* Properties *)

Confidence(m) == m.match_confidence

\* The results the latest call scored: its provider results after the
\* category filter.
Scored == filter_results(ret.results, ret.media_type).results

Returned == ret.status = "returned" /\ ~ret.provider_failed

\* C1: once a stripped phrase is in the cache, no step invokes the provider
\* for it again: its provider call count never changes afterwards, whatever
\* the media_type and the settings of the later calls.
C1_CachedPhraseNeverRefetched ==
    [][\A k \in Keys :
          k \in DOMAIN cache => provider_calls'[k] = provider_calls[k]]_vars

\* A call, made with the provider name in the phrase, for MUSIC and in
\* fallback mode, served from the cache for a phrase fetched exactly once.
C1_Witness ==
    /\ ret.status = "returned"
    /\ ret.hit
    /\ ret.key \in DOMAIN cache
    /\ ret.phrase # ret.key
    /\ ret.media_type = "MUSIC"
    /\ ret.settings.fallback_mode
    /\ provider_calls[ret.key] = 1

\* C2: a call whose provider invocation raises returns the empty list
\* without raising, and leaves the cache as it was: the phrase is still not
\* in it.
C2_ProviderFailureLeavesCache ==
    [][(provider_calls' # provider_calls /\ ret'.provider_failed)
          => /\ ret'.status = "returned"
             /\ ret'.matches = <<>>
             /\ cache' = cache
             /\ ret'.key \notin DOMAIN cache']_vars

\* The provider was invoked a second time for a phrase and raised again,
\* while another phrase sits in the cache.
C2_Witness ==
    /\ ret.provider_failed
    /\ ret.status = "returned"
    /\ ret.matches = <<>>
    /\ ret.key \notin DOMAIN cache
    /\ DOMAIN cache # {}
    /\ provider_calls[ret.key] = 2

\* C3: no returned candidate has a match_confidence above 100.
C3_ConfidenceAtMost100 ==
    \A i \in 1..Len(ret.matches) : Confidence(ret.matches[i]) <= 100

\* A list holding a candidate clamped to 100 from a higher score and its
\* audio duplicate at 99.
C3_Witness ==
    /\ Returned
    /\ \E k \in 1..Len(Scored) :
          /\ unclamped_score(Scored[k], k - 1,
                             request(ret.phrase, ret.media_type,
                                     ret.settings.fallback_mode)) > 100
          /\ Confidence(ret.matches[k]) = 100
    /\ \E i \in 1..Len(ret.matches) :
          ret.matches[i].playback = "AUDIO" /\ Confidence(ret.matches[i]) = 99

\* C4: every candidate of a call in fallback mode, for a phrase without the
\* provider name, scores exactly 25 below the corresponding candidate of the
\* same call with fallback_mode off.
C4_FallbackExactly25Lower ==
    (Returned /\ ret.settings.fallback_mode /\ ~voc_match(ret.phrase, "youtube"))
    => LET without == build_matches(Scored,
                                    request(ret.phrase, ret.media_type, FALSE),
                                    ret.settings)
       IN  \A i \in 1..Len(ret.matches) :
              Confidence(ret.matches[i]) = Confidence(without[i]) - 25

\* C5: every returned candidate has a playback form among those the request
\* allows: AUDIO alone for media_type AUDIO or without a GUI, VIDEO alone for
\* media_type VIDEO with a GUI, either form otherwise.
C5_PlaybackAmongRequestedForms ==
    \A i \in 1..Len(ret.matches) :
        ret.matches[i].playback
            \in playback_forms(ret.media_type, ret.gui_connected)

\* C6: with audio_only and video_only both off, every VIDEO candidate of
\* score S comes with an AUDIO candidate of the same uri and score S - 1.
C6_AudioDuplicateOneBelow ==
    (ret.status = "returned" /\ ~ret.settings.audio_only /\ ~ret.settings.video_only)
    => \A i \in 1..Len(ret.matches) :
          ret.matches[i].playback = "VIDEO"
          => \E j \in 1..Len(ret.matches) :
                /\ ret.matches[j].playback = "AUDIO"
                /\ ret.matches[j].uri = ret.matches[i].uri
                /\ Confidence(ret.matches[j]) = Confidence(ret.matches[i]) - 1

\* Two VIDEO candidates of different scores, each with its duplicate.
C6_Witness ==
    /\ ret.status = "returned"
    /\ ~ret.settings.audio_only /\ ~ret.settings.video_only
    /\ \E i, j \in 1..Len(ret.matches) :
          /\ ret.matches[i].playback = "VIDEO"
          /\ ret.matches[j].playback = "VIDEO"
          /\ ret.matches[i].uri # ret.matches[j].uri
          /\ Confidence(ret.matches[i]) # Confidence(ret.matches[j])

WellShaped(video) ==
    /\ video.has_length
    /\ Len(split(video.length)) \in 1..3
    /\ \A i \in 1..Len(split(video.length)) : isdigit(split(video.length)[i])

\* C8: parse_duration returns 0, and raises nothing, for every length that
\* is absent, empty or not of that shape.
C8_MalformedDurationIsZero ==
    (dur.phase = "done" /\ ~WellShaped(dur.video))
    => dur.out = [exc |-> "none", ms |-> 0]

\* The position in the provider's list of the k-th result that passed the
\* category filter, counted from 0.
ProviderIndex(k) ==
    (CHOOSE n \in 1..Len(ret.results) :
        Len(filter_results(SubSeq(ret.results, 1, n), ret.media_type).results) = k
        /\ (n = 1 \/ Len(filter_results(SubSeq(ret.results, 1, n - 1),
                                        ret.media_type).results) = k - 1)) - 1

\* C9: each result is scored with its index in the provider's ordering, also
\* when earlier results were filtered out.
C9_RankDecayByProviderIndex ==
    Returned
    => \A k \in 1..Len(Scored) :
          Confidence(ret.matches[k]) =
              calc_score(Scored[k], ProviderIndex(k),
                         request(ret.phrase, ret.media_type,
                                 ret.settings.fallback_mode))

\* The secondary penalty as the specification tabulates it.
TabulatedPenalty(score, media_type, music) ==
    IF score < 100 THEN 0
    ELSE IF media_type = "AUDIO" THEN 20
    ELSE IF media_type \in {"GENERIC", "PODCAST", "DOCUMENTARY"} THEN 10
    ELSE IF media_type = "MUSIC" /\ ~music THEN 5
    ELSE 0

\* C10: the secondary penalty calc_score applies is the tabulated one.
C10_SecondaryPenaltyTable ==
    Returned
    => \A k \in 1..Len(ret.trace) :
          ret.trace[k].penalty =
              TabulatedPenalty(ret.trace[k].running, ret.media_type,
                               is_music(Scored[k]))

====
